---- MODULE Spec2Model ----
(***************************************************************************)
(* luvemix: a minimal 8-bit CPU (src/main.rs).                             *)
(*                                                                         *)
(*   CpuState      registers, the status register sr and its flag logic    *)
(*   CheapoMemory  a sparse address -> byte map                            *)
(*   Cpu           a CpuState plus the bus lines addr_bus, data_bus, rwb   *)
(*                 and the two-phase cycle setup_cycle / complete_cycle    *)
(*   main          the driver that services the bus between the phases     *)
(*                                                                         *)
(* Specifications:                                                         *)
(*   SpecState  a CpuState from CpuState::new under every call an outside  *)
(*              caller can make (set_a, set_flag, get_flag, a write to the *)
(*              public field a)                                            *)
(*   SpecLoad   set_a / get_flag from any prior a and sr                   *)
(*   SpecFlag   set_flag / get_flag from any prior sr                      *)
(*   SpecMem    a CheapoMemory from CheapoMemory::new under write / read   *)
(*   Spec       the driver of main, cycle after cycle, statement by        *)
(*              statement                                                  *)
(***************************************************************************)
EXTENDS Integers, Sequences, FiniteSets

VARIABLES
    st,       \* a CpuState used directly (as the tests and main's `state` do)
    ret,      \* what the last get_flag on st returned
    last,     \* the last operation on st and its arguments
    loaded,   \* whether set_a has been called on st
    derived,  \* the ZRO/NEG bits that the last set_a on st derived (0 before any)
    direct,   \* the direct operations on st since the last set_a
    mem,      \* CheapoMemory.map
    hist,     \* the writes made to mem so far, oldest first
    rd,       \* the last read of mem: its address and what it returned
    cpu,      \* the Cpu: its private CpuState and the three bus lines
    pc,       \* the driver's position in main
    cycles,   \* the cycles the driver has completed
    svc       \* the driver's last bus service and its count of memory accesses

vars == <<st, ret, last, loaded, derived, direct, mem, hist, rd, cpu, pc, cycles, svc>>

-----------------------------------------------------------------------------
(* mod types *)

DATA_WIDTH == 8

Byte == 0 .. 255
Word == 0 .. 65535
Address == Word
Data == Byte
Flags == Data

(* Bitwise operators on n-bit unsigned integers. *)
RECURSIVE BitAnd(_, _, _)
BitAnd(x, y, n) ==
    IF n = 0 \/ x = 0 \/ y = 0 THEN 0
    ELSE (IF x % 2 = 1 /\ y % 2 = 1 THEN 1 ELSE 0)
         + 2 * BitAnd(x \div 2, y \div 2, n - 1)

RECURSIVE BitOr(_, _, _)
BitOr(x, y, n) ==
    IF n = 0 \/ (x = 0 /\ y = 0) THEN 0
    ELSE (IF x % 2 = 1 \/ y % 2 = 1 THEN 1 ELSE 0)
         + 2 * BitOr(x \div 2, y \div 2, n - 1)

BitNot(x, n) == (2 ^ n - 1) - x

Shr(x, k) == x \div (2 ^ k)

-----------------------------------------------------------------------------
(* enum Flag *)

ZRO == 2
NEG == 128

Flag == {ZRO, NEG}

to_mask(flag) == flag

-----------------------------------------------------------------------------
(* struct CpuState *)

CpuState_new ==
    [sr |-> 0, pc |-> 0, sp |-> 0, a |-> 0, ir |-> 0, mar |-> 0, mdr |-> 0]

get_flag_any(s, flag) == s.sr # 0

get_flag(s, flag) == BitAnd(s.sr, to_mask(flag), DATA_WIDTH) # 0

set_flag_bare(s, flag, val) ==
    LET mask == to_mask(flag)
        flag_val == IF val THEN mask ELSE 0
    IN  [s EXCEPT !.sr = flag_val]

set_flag_noclear(s, flag, val) ==
    LET mask == to_mask(flag)
        flag_val == IF val THEN BitOr(s.sr, mask, DATA_WIDTH) ELSE s.sr
    IN  [s EXCEPT !.sr = flag_val]

set_flag(s, flag, val) ==
    LET mask == to_mask(flag)
        flag_val == IF val THEN BitOr(s.sr, mask, DATA_WIDTH)
                    ELSE BitAnd(s.sr, BitNot(mask, DATA_WIDTH), DATA_WIDTH)
    IN  [s EXCEPT !.sr = flag_val]

set_a_signed(s, val) ==
    LET s1 == [s EXCEPT !.a = val]
        s2 == set_flag(s1, ZRO, val = 0)
    IN  set_flag(s2, NEG, Shr(val, DATA_WIDTH - 1) > 1)

set_a(s, val) ==
    LET s1 == [s EXCEPT !.a = val]
        s2 == set_flag(s1, ZRO, val = 0)
    IN  set_flag(s2, NEG, Shr(val, DATA_WIDTH - 1) > 0)

(* A write to the public field a from outside the module. *)
assign_a_load(s, val) == set_a(s, val)

assign_a(s, val) == [s EXCEPT !.a = val]

-----------------------------------------------------------------------------
(* Option<Data> *)

None == << >>
Some(v) == << v >>
unwrap(o) == o[1]

-----------------------------------------------------------------------------
(* struct CheapoMemory: map is a function whose domain is the set of keys. *)

CheapoMemory_new == << >>

map_get(m, addr) == IF addr \in DOMAIN m THEN Some(m[addr]) ELSE None

map_insert(m, addr, val) ==
    [k \in DOMAIN m \cup {addr} |-> IF k = addr THEN val ELSE m[k]]

read_zero_fill(m, addr) ==
    LET val == map_get(m, addr)
    IN  IF val = None THEN Some(0) ELSE Some(unwrap(val))

read(m, addr) ==
    LET val == map_get(m, addr)
    IN  IF val = None THEN None ELSE Some(unwrap(val))

write_keep(m, addr, val) ==
    IF addr \in DOMAIN m THEN m ELSE map_insert(m, addr, val)

write(m, addr, val) == map_insert(m, addr, val)

-----------------------------------------------------------------------------
(* enum BusMode *)

READ == 1
WRITE == 0

-----------------------------------------------------------------------------
(* struct Cpu *)

Cpu_new_write ==
    LET state == CpuState_new
        addr == state.mar
        data == state.mdr
    IN  [state |-> state, addr_bus |-> addr, data_bus |-> data, rwb |-> WRITE]

Cpu_new ==
    LET state == CpuState_new
        addr == state.mar
        data == state.mdr
    IN  [state |-> state, addr_bus |-> addr, data_bus |-> data, rwb |-> READ]

setup_stmt_read(c, line) ==
    CASE line = "addr_bus" -> [c EXCEPT !.addr_bus = 255]
      [] line = "data_bus" -> [c EXCEPT !.data_bus = 42]
      [] line = "rwb"      -> [c EXCEPT !.rwb = READ]

setup_stmt_regs(c, line) ==
    CASE line = "addr_bus" -> [c EXCEPT !.addr_bus = 255, !.state.mar = 255]
      [] line = "data_bus" -> [c EXCEPT !.data_bus = 42, !.state.mdr = 42]
      [] line = "rwb"      -> [c EXCEPT !.rwb = WRITE]

setup_stmt_mar(c, line) ==
    CASE line = "addr_bus" -> [c EXCEPT !.addr_bus = c.state.mar]
      [] line = "data_bus" -> [c EXCEPT !.data_bus = 42]
      [] line = "rwb"      -> [c EXCEPT !.rwb = WRITE]

(* The statements of setup_cycle, by the line they assign. *)
setup_stmt(c, line) ==
    CASE line = "addr_bus" -> [c EXCEPT !.addr_bus = 255]
      [] line = "data_bus" -> [c EXCEPT !.data_bus = 42]
      [] line = "rwb"      -> [c EXCEPT !.rwb = WRITE]

setup_order_rwb_first == <<"rwb", "addr_bus", "data_bus">>

(* The order in which setup_cycle executes them. *)
setup_order == <<"addr_bus", "data_bus", "rwb">>

setup_cycle(c) ==
    setup_stmt(setup_stmt(setup_stmt(c, setup_order[1]), setup_order[2]), setup_order[3])

complete_cycle_raw(c) ==
    LET data == c.data_bus
    IN  [c EXCEPT !.state.a = data]

complete_cycle_acc(c) ==
    LET data == (c.state.a + c.data_bus) % 256
    IN  [c EXCEPT !.state = set_a(c.state, data)]

complete_cycle_mdr(c) ==
    LET data == c.state.mdr
    IN  [c EXCEPT !.state = set_a(c.state, data)]

complete_cycle(c) ==
    LET data == c.data_bus
    IN  [c EXCEPT !.state = set_a(c.state, data)]

-----------------------------------------------------------------------------
(* A CpuState under the calls of an outside caller. *)

(* last: the operation, its arguments, and sr as it was before the call. *)
NoOp == [op |-> "new", flag |-> 0, v |-> FALSE, x |-> 0, sr0 |-> 0]

(* ret: what get_flag returned and the call it followed. *)
NoRet == [val |-> FALSE, after |-> NoOp]

FlagBits(s) == BitAnd(s.sr, BitOr(ZRO, NEG, DATA_WIDTH), DATA_WIDTH)

StSetA(x) ==
    /\ st' = set_a(st, x)
    /\ ret' = NoRet

StSetFlag(f, v) ==
    /\ st' = set_flag(st, f, v)
    /\ ret' = NoRet

StGetFlag(f) ==
    /\ ret' = [val |-> get_flag(st, f), after |-> last]
    /\ UNCHANGED st

StAssignA(x) ==
    /\ st' = assign_a(st, x)
    /\ ret' = NoRet

(* The call is recorded in last. *)
Log(op, f, v, x) ==
    /\ last' = [op |-> op, flag |-> f, v |-> v, x |-> x, sr0 |-> st.sr]
    /\ UNCHANGED <<loaded, derived, direct>>

(* The call is recorded in loaded, derived and direct. *)
HistLoad(x) ==
    /\ loaded' = TRUE
    /\ derived' = (IF x = 0 THEN ZRO ELSE 0) + (IF x >= 128 THEN NEG ELSE 0)
    /\ direct' = {}
    /\ UNCHANGED last

HistDirect(op) ==
    /\ direct' = direct \cup {op}
    /\ UNCHANGED <<last, loaded, derived>>

HistRead == UNCHANGED <<last, loaded, derived, direct>>

StInit ==
    /\ ret = NoRet
    /\ last = NoOp
    /\ loaded = FALSE
    /\ derived = 0
    /\ direct = {}

DriverIdle ==
    /\ mem = << >>
    /\ hist = << >>
    /\ rd = << >>
    /\ cpu = << >>
    /\ pc = "idle"
    /\ cycles = 0
    /\ svc = << >>

driver_vars == <<mem, hist, rd, cpu, pc, cycles, svc>>

(* The bytes an outside caller writes to the field a. *)
AssignData == {0, 1, 127, 128, 255}

InitState ==
    /\ st = CpuState_new
    /\ StInit
    /\ DriverIdle

NextState ==
    \/ \E x \in Data : StSetA(x) /\ HistLoad(x) /\ UNCHANGED driver_vars
    \/ \E f \in Flag, v \in BOOLEAN :
          StSetFlag(f, v) /\ HistDirect("set_flag") /\ UNCHANGED driver_vars
    \/ \E f \in Flag : StGetFlag(f) /\ HistRead /\ UNCHANGED driver_vars
    \/ \E x \in AssignData :
          StAssignA(x) /\ HistDirect("assign_a") /\ UNCHANGED driver_vars

SpecState == InitState /\ [][NextState]_vars

(* The accumulator values a CpuState holds before a load is checked. *)
PriorA == {0, 42, 128}

InitAny ==
    /\ st \in {[CpuState_new EXCEPT !.a = a0, !.sr = s0] : a0 \in PriorA, s0 \in Flags}
    /\ StInit
    /\ DriverIdle

(* set_a as a function of the prior state and x: one load of each state   *)
(* drawn, then the reads of its flags.                                    *)
NextLoad ==
    \/ \E x \in Data :
          /\ last.op = "new"
          /\ StSetA(x) /\ Log("set_a", 0, FALSE, x) /\ UNCHANGED driver_vars
    \/ \E f \in Flag :
          StGetFlag(f) /\ Log("get_flag", f, FALSE, 0) /\ UNCHANGED driver_vars

SpecLoad == InitAny /\ [][NextLoad]_vars

NextFlag ==
    \/ \E f \in Flag, v \in BOOLEAN :
          StSetFlag(f, v) /\ Log("set_flag", f, v, 0) /\ UNCHANGED driver_vars
    \/ \E f \in Flag :
          StGetFlag(f) /\ Log("get_flag", f, FALSE, 0) /\ UNCHANGED driver_vars

SpecFlag == InitAny /\ [][NextFlag]_vars

-----------------------------------------------------------------------------
(* Claims about CpuState. *)

Bit7(x) == (x \div 128) % 2 = 1

FlagsFollowA ==
    /\ get_flag(st, ZRO) = (st.a = 0)
    /\ get_flag(st, NEG) = Bit7(st.a)

(* C1 as stated: from CpuState::new and after any sequence of set_a calls, *)
(* ZRO = (a = 0) and NEG = (bit 7 of a).  The state CpuState::new returns   *)
(* has a = 0 and sr = 0, so ZRO is clear while a is zero.                   *)
C1_FlagsFollowA_FromNew == direct = {} => FlagsFollowA

(* C1, amended: once set_a has been called, and as long as only set_a (and *)
(* get_flag) calls follow, ZRO = (a = 0) and NEG = (bit 7 of a).           *)
C1_FlagsFollowA_AfterLoad == (loaded /\ direct = {}) => FlagsFollowA

C1_Witness ==
    /\ loaded /\ direct = {}
    /\ st.a = 200 /\ get_flag(st, NEG) /\ ~get_flag(st, ZRO)

(* C2: after set_a(x) from any prior a and sr: a = x, ZRO = (x = 0) and    *)
(* NEG = ((x & 0x80) # 0).                                                 *)
C2_SetACoupling ==
    last.op = "set_a" =>
        /\ st.a = last.x
        /\ get_flag(st, ZRO) = (last.x = 0)
        /\ get_flag(st, NEG) = (BitAnd(last.x, 128, 8) # 0)

C2_Witness ==
    /\ last.op = "set_a" /\ last.x = 128
    /\ last.sr0 = 255
    /\ get_flag(st, NEG) /\ ~get_flag(st, ZRO)

(* C3 as stated: nothing but set_a makes the ZRO/NEG bits differ from what *)
(* the last set_a derived.                                                 *)
C3_OnlySetAChangesFlags == loaded => FlagBits(st) = derived

(* C3, amended: the ZRO/NEG bits are what the last set_a derived as long   *)
(* as set_flag has not been called directly since; a write to the public   *)
(* field a and get_flag leave them alone.                                  *)
C3_FlagsKeptUnlessSetFlag ==
    (loaded /\ "set_flag" \notin direct) => FlagBits(st) = derived

C3_Witness ==
    /\ loaded /\ direct = {"assign_a"}
    /\ st.a = 0 /\ FlagBits(st) = NEG /\ derived = NEG

(* C4: set_flag(f, v) changes no bit of sr but f's mask bit: every other   *)
(* flag reads as before and the reserved bits are as before.               *)
C4_SetFlagIsolation ==
    last.op = "set_flag" =>
        /\ \A f2 \in Flag \ {last.flag} :
              get_flag(st, f2) = (BitAnd(last.sr0, f2, 8) # 0)
        /\ BitAnd(st.sr, 255 - last.flag, 8) = BitAnd(last.sr0, 255 - last.flag, 8)
        /\ BitAnd(st.sr, 125, 8) = BitAnd(last.sr0, 125, 8)

C4_Witness ==
    /\ last.op = "set_flag" /\ last.flag = ZRO /\ ~last.v
    /\ last.sr0 = 255
    /\ st.sr = 253

(* C5: get_flag(f) called right after set_flag(f, v) returns v, and        *)
(* get_flag changes no state.                                              *)
C5_FlagRoundTrip ==
    [][ /\ (last.op = "set_flag" /\ last'.op = "get_flag" /\ last'.flag = last.flag)
            => ret'.val = last.v
        /\ last'.op = "get_flag" => st' = st ]_vars

C5_Witness ==
    /\ last.op = "get_flag"
    /\ ret.after.op = "set_flag" /\ ret.after.flag = last.flag
    /\ ret.after.v = FALSE /\ ret.val = FALSE
    /\ BitAnd(ret.after.sr0, last.flag, 8) # 0

-----------------------------------------------------------------------------
(* A CheapoMemory under write and read calls. *)

MaxWrites == 3

MemAddrs == {0, 255, 65535}
MemData == {0, 42, 43}

MemWrite(addr, val) ==
    /\ Len(hist) < MaxWrites
    /\ mem' = write(mem, addr, val)
    /\ hist' = Append(hist, <<addr, val>>)
    /\ rd' = << >>

MemRead(addr) ==
    /\ rd' = <<addr, read(mem, addr)>>
    /\ UNCHANGED <<mem, hist>>

InitMem ==
    /\ st = CpuState_new
    /\ StInit
    /\ mem = CheapoMemory_new
    /\ hist = << >>
    /\ rd = << >>
    /\ cpu = << >>
    /\ pc = "idle"
    /\ cycles = 0
    /\ svc = << >>

state_vars == <<st, ret, last, loaded, derived, direct>>

NextMem ==
    \/ \E addr \in MemAddrs, val \in MemData :
          MemWrite(addr, val) /\ UNCHANGED <<state_vars, cpu, pc, cycles, svc>>
    \/ \E addr \in MemAddrs :
          MemRead(addr) /\ UNCHANGED <<state_vars, cpu, pc, cycles, svc>>

SpecMem == InitMem /\ [][NextMem]_vars

(* What the writes h, oldest first, leave at addr. *)
RECURSIVE LastWrite(_, _)
LastWrite(h, addr) ==
    IF h = << >> THEN None
    ELSE IF h[Len(h)][1] = addr THEN Some(h[Len(h)][2])
    ELSE LastWrite(SubSeq(h, 1, Len(h) - 1), addr)

(* C6: read(addr) is None iff no write to addr has occurred, and otherwise *)
(* Some(v) for the most recent write (addr, v); writes to other addresses  *)
(* do not change it.                                                       *)
C6_LastWriteWins ==
    \A addr \in MemAddrs :
        /\ (read(mem, addr) = None) <=> (\A i \in 1 .. Len(hist) : hist[i][1] # addr)
        /\ read(mem, addr) = LastWrite(hist, addr)

C6_Witness ==
    /\ Len(hist) = 3
    /\ hist[1] = <<0, 42>> /\ hist[2] = <<255, 0>> /\ hist[3] = <<0, 43>>
    /\ read(mem, 0) = Some(43)
    /\ read(mem, 255) = Some(0)
    /\ read(mem, 65535) = None

(* C7: a fresh CheapoMemory reads None at every address 0..65535, and a    *)
(* stored zero reads Some(0), which is not None.                           *)
C7_MemoryDefault ==
    /\ hist = << >> => \A addr \in Address : read(mem, addr) = None
    /\ \A addr \in MemAddrs :
          LastWrite(hist, addr) = Some(0) =>
              read(mem, addr) = Some(0) /\ read(mem, addr) # None
    /\ (rd # << >> /\ \A i \in 1 .. Len(hist) : hist[i][1] # rd[1]) => rd[2] = None

C7_Witness ==
    /\ hist = << <<0, 0>> >>
    /\ rd = <<0, Some(0)>>
    /\ read(mem, 255) = None

-----------------------------------------------------------------------------
(* main: the driver.  Each cycle is setup_cycle (statement by statement),  *)
(* the service of the bus, and complete_cycle.                             *)

MaxCycles == 20

(* svc: the direction, address and byte of the last service, and n, the   *)
(* number of memory accesses the driver has made.                         *)
NoSvc == [rwb |-> READ, addr |-> 0, data |-> 0, n |-> 0]

frame_vars == <<state_vars, hist, rd>>

Setup(i, from, to) ==
    /\ pc = from
    /\ cpu' = setup_stmt(cpu, setup_order[i])
    /\ pc' = to
    /\ UNCHANGED <<mem, cycles, svc, frame_vars>>

Service_no_access ==
    /\ pc = "service"
    /\ pc' = "complete"
    /\ UNCHANGED <<cpu, mem, svc, cycles, frame_vars>>

Service ==
    /\ pc = "service"
    /\ IF cpu.rwb = READ
       THEN LET addr == cpu.addr_bus
                val == read(mem, addr)
            IN  IF val = None
                THEN /\ svc' = [svc EXCEPT !.n = svc.n + 1]
                     /\ pc' = "panic"
                     /\ UNCHANGED <<cpu, mem>>
                ELSE /\ cpu' = [cpu EXCEPT !.data_bus = unwrap(val)]
                     /\ svc' = [rwb |-> READ, addr |-> addr,
                                data |-> unwrap(val), n |-> svc.n + 1]
                     /\ pc' = "complete"
                     /\ UNCHANGED mem
       ELSE LET addr == cpu.addr_bus
                data == cpu.data_bus
            IN  /\ mem' = write(mem, addr, data)
                /\ svc' = [rwb |-> WRITE, addr |-> addr, data |-> data, n |-> svc.n + 1]
                /\ pc' = "complete"
                /\ UNCHANGED cpu
    /\ UNCHANGED <<cycles, frame_vars>>

Complete_store ==
    /\ pc = "complete"
    /\ cpu' = complete_cycle(cpu)
    /\ mem' = write(mem, cpu.state.mar, cpu.data_bus)
    /\ cycles' = cycles + 1
    /\ pc' = "end"
    /\ UNCHANGED <<svc, frame_vars>>

Complete ==
    /\ pc = "complete"
    /\ cpu' = complete_cycle(cpu)
    /\ cycles' = cycles + 1
    /\ pc' = "end"
    /\ UNCHANGED <<mem, svc, frame_vars>>

(* The driver loop: the next cycle. *)
Again ==
    /\ pc = "end"
    /\ cycles < MaxCycles
    /\ pc' = "setup1"
    /\ UNCHANGED <<cpu, mem, cycles, svc, frame_vars>>

Init ==
    /\ st = CpuState_new
    /\ StInit
    /\ cpu = Cpu_new
    /\ mem = CheapoMemory_new
    /\ hist = << >>
    /\ rd = << >>
    /\ pc = "setup1"
    /\ cycles = 0
    /\ svc = NoSvc

Next ==
    \/ Setup(1, "setup1", "setup2")
    \/ Setup(2, "setup2", "setup3")
    \/ Setup(3, "setup3", "service")
    \/ Service
    \/ Complete
    \/ Again

Spec == Init /\ [][Next]_vars

(* main runs on one thread to its end: no enabled step is put off forever. *)
SpecFair == Spec /\ WF_vars(Next)

(* A driver that, between setup_cycle and its service of the bus, writes   *)
(* the public lines of the Cpu, in its first MaxDriven cycles.             *)
MaxDriven == 2

BusAddrs == {0, 255}
BusData == {0, 42, 128, 255}

Drive(line, val) ==
    /\ pc = "service"
    /\ cpu' = [cpu EXCEPT ![line] = val]
    /\ UNCHANGED <<pc, mem, cycles, svc, frame_vars>>

BusAgain ==
    /\ pc = "end"
    /\ cycles < MaxDriven
    /\ pc' = "setup1"
    /\ UNCHANGED <<cpu, mem, cycles, svc, frame_vars>>

NextBus ==
    \/ Setup(1, "setup1", "setup2")
    \/ Setup(2, "setup2", "setup3")
    \/ Setup(3, "setup3", "service")
    \/ \E val \in BusAddrs : Drive("addr_bus", val)
    \/ \E val \in BusData : Drive("data_bus", val)
    \/ \E val \in {READ, WRITE} : Drive("rwb", val)
    \/ Service
    \/ Complete
    \/ BusAgain

SpecBus == Init /\ [][NextBus]_vars

(* C8: in every cycle the lines hold the transaction after setup_cycle,    *)
(* the driver services what they say, and after complete_cycle a is the    *)
(* byte that was on data_bus at service time, with ZRO/NEG derived from it.*)
C8_CycleOrdering ==
    /\ pc = "service" =>
          cpu.rwb = WRITE /\ cpu.addr_bus = 255 /\ cpu.data_bus = 42
    /\ pc = "complete" =>
          /\ svc.n = cycles + 1
          /\ svc.rwb = cpu.rwb /\ svc.addr = cpu.addr_bus /\ svc.data = cpu.data_bus
          /\ svc.rwb = WRITE => read(mem, svc.addr) = Some(svc.data)
    /\ pc = "end" =>
          /\ svc.n = cycles
          /\ cpu.state.a = svc.data
          /\ get_flag(cpu.state, ZRO) = (svc.data = 0)
          /\ get_flag(cpu.state, NEG) = Bit7(svc.data)

C8_Witness ==
    /\ pc = "end" /\ cycles = 3
    /\ svc = [rwb |-> WRITE, addr |-> 255, data |-> 42, n |-> 3]
    /\ cpu.state.a = 42

(* C9: the first cycle from a fresh Cpu and CheapoMemory: setup_cycle      *)
(* yields addr_bus = 0xFF, data_bus = 42, rwb = WRITE; the service writes  *)
(* 42 at 0xFF; complete_cycle leaves a = 42 with ZRO and NEG clear; 0xFF   *)
(* then reads Some(42) and every other address None.                       *)
C9_ReferenceCycle ==
    /\ (cycles = 0 /\ pc = "service") =>
          /\ cpu.addr_bus = 255 /\ cpu.data_bus = 42 /\ cpu.rwb = WRITE
          /\ DOMAIN mem = {}
    /\ (cycles = 0 /\ pc = "complete") =>
          /\ svc.rwb = WRITE /\ svc.addr = 255 /\ svc.data = 42
          /\ read(mem, 255) = Some(42)
    /\ (cycles = 1 /\ pc = "end") =>
          /\ cpu.state.a = 42
          /\ ~get_flag(cpu.state, ZRO)
          /\ ~get_flag(cpu.state, NEG)
          /\ read(mem, 255) = Some(42)
          /\ \A addr \in Address \ {255} : read(mem, addr) = None

C9_Witness ==
    /\ cycles = 1 /\ pc = "end"
    /\ cpu.state.a = 42 /\ cpu.state.sr = 0
    /\ read(mem, 255) = Some(42)

(* C10: setup_cycle assigns addr_bus, then data_bus, then rwb: when rwb is *)
(* set to WRITE, addr_bus and data_bus already hold this transaction, and  *)
(* no state has the direction asserted with a stale address or data.       *)
C10_SetupOrder ==
    /\ pc = "setup2" => cpu.addr_bus = 255
    /\ pc = "setup3" => cpu.addr_bus = 255 /\ cpu.data_bus = 42
    /\ (cycles = 0 /\ pc \in {"setup1", "setup2", "setup3"}) => cpu.rwb = READ
    /\ cpu.rwb = WRITE => cpu.addr_bus = 255 /\ cpu.data_bus = 42

C10_Witness ==
    /\ cycles = 0 /\ pc = "setup3"
    /\ cpu.rwb = READ /\ cpu.addr_bus = 255 /\ cpu.data_bus = 42

-----------------------------------------------------------------------------
(* Claims about the cycle. *)

Phases == <<"setup1", "setup2", "setup3", "service", "complete", "end">>

(* C11: each cycle of the driver is setup_cycle, then exactly one memory   *)
(* operation (the one rwb names, at addr_bus), then complete_cycle: the    *)
(* driver moves from each phase to the next one only, and memory is        *)
(* accessed once per cycle, in the service step.                           *)
C11_PhaseOrder ==
    [][ /\ pc' # pc =>
              \/ \E i \in 1 .. 5 : pc = Phases[i] /\ pc' = Phases[i + 1]
              \/ pc = "end" /\ pc' = "setup1"
        /\ svc'.n # svc.n =>
              /\ pc = "service" /\ pc' = "complete"
              /\ svc'.n = svc.n + 1
              /\ svc'.rwb = cpu.rwb /\ svc'.addr = cpu.addr_bus
        /\ (pc = "service" /\ pc' = "complete") => svc.n = cycles /\ svc'.n = cycles + 1
        /\ (pc = "complete" /\ pc' = "end") => svc.n = cycles + 1 /\ svc'.n = cycles'
      ]_vars

C11_Witness ==
    /\ pc = "end" /\ cycles = 4 /\ svc.n = 4
    /\ svc.rwb = WRITE /\ svc.addr = 255

(* C12: setup_cycle and complete_cycle leave the memory map unchanged; it  *)
(* changes only in the driver's service step, when rwb is WRITE, and only  *)
(* at addr_bus, to data_bus.                                               *)
C12_OnlyServiceWrites ==
    [][ mem' # mem =>
            /\ pc = "service" /\ pc' = "complete"
            /\ cpu.rwb = WRITE
            /\ DOMAIN mem' = DOMAIN mem \cup {cpu.addr_bus}
            /\ mem'[cpu.addr_bus] = cpu.data_bus
            /\ \A k \in DOMAIN mem \ {cpu.addr_bus} : mem'[k] = mem[k]
      ]_vars

C12_Witness ==
    /\ pc = "complete" /\ cycles = 1
    /\ svc.rwb = WRITE /\ svc.addr = 0 /\ svc.data = 128
    /\ DOMAIN mem = {0, 255} /\ mem[0] = 128 /\ mem[255] = 42

(* C13: a fresh Cpu has every CpuState field zero, addr_bus = mar = 0,     *)
(* data_bus = mdr = 0 and rwb = READ.                                      *)
C13_FreshCpu ==
    (pc = "setup1" /\ cycles = 0) =>
        /\ cpu.state = [pc |-> 0, sp |-> 0, a |-> 0, sr |-> 0, ir |-> 0,
                        mar |-> 0, mdr |-> 0]
        /\ cpu.addr_bus = cpu.state.mar /\ cpu.addr_bus = 0
        /\ cpu.data_bus = cpu.state.mdr /\ cpu.data_bus = 0
        /\ cpu.rwb = READ

C13_Witness ==
    /\ pc = "setup1" /\ cycles = 0 /\ svc.n = 0
    /\ cpu.rwb = READ /\ cpu.addr_bus = 0 /\ cpu.data_bus = 0
    /\ DOMAIN mem = {}

(* C14: a READ serviced at an address never written reads None and ends   *)
(* the run at the service step: data_bus is not overwritten,               *)
(* complete_cycle does not run, and the Cpu and the memory map stay as     *)
(* they were.                                                              *)
C14_AbsentReadIsFatal ==
    [][ /\ pc # "panic"
        /\ (pc = "service" /\ pc' # pc /\ cpu.rwb = READ
              /\ cpu.addr_bus \notin DOMAIN mem) =>
              /\ pc' = "panic"
              /\ cpu' = cpu
              /\ mem' = mem
              /\ cycles' = cycles
        /\ pc' = "panic" =>
              /\ pc = "service" /\ cpu.rwb = READ
              /\ cpu.addr_bus \notin DOMAIN mem
      ]_vars

C14_Witness ==
    /\ pc = "panic" /\ cycles = 1
    /\ cpu.rwb = READ /\ cpu.addr_bus = 0 /\ 0 \notin DOMAIN mem
    /\ cpu.data_bus = 128 /\ cpu.state.a = 42
    /\ DOMAIN mem = {255}

(* C15: once complete_cycle has run, ZRO = (a = 0) and NEG = (bit 7 of a)  *)
(* in every later state of the Cpu, whatever byte the driver put on        *)
(* data_bus.                                                               *)
C15_CpuFlagsFollowA ==
    cycles >= 1 =>
        /\ get_flag(cpu.state, ZRO) = (cpu.state.a = 0)
        /\ get_flag(cpu.state, NEG) = Bit7(cpu.state.a)

C15_Witness ==
    /\ cycles = 2 /\ pc = "end"
    /\ svc.rwb = READ /\ svc.data = 128
    /\ cpu.state.a = 128 /\ cpu.state.sr = 128

(* C16: after every setup_cycle rwb is WRITE, so the driver never takes    *)
(* the READ branch and never fails on an absent read, and every cycle      *)
(* that starts reaches the end of complete_cycle.                          *)
C16_NoReadFault ==
    /\ [](pc \in {"service", "complete", "end"} => cpu.rwb = WRITE)
    /\ [](pc # "panic")
    /\ [](pc = "complete" => svc.rwb = WRITE)
    /\ (pc = "setup1") ~> (pc = "end")

C16_Witness ==
    /\ pc = "complete" /\ cycles = 9
    /\ cpu.rwb = WRITE /\ svc.rwb = WRITE /\ svc.n = 10

(* C17: setup_cycle changes only addr_bus, data_bus and rwb and no         *)
(* register; complete_cycle changes only a and the ZRO/NEG bits of sr.     *)
C17_PhaseFrames ==
    [][ /\ (pc \in {"setup1", "setup2", "setup3"} /\ pc' # pc) =>
              cpu'.state = cpu.state
        /\ (pc = "complete" /\ pc' = "end") =>
              /\ cpu'.addr_bus = cpu.addr_bus
              /\ cpu'.data_bus = cpu.data_bus
              /\ cpu'.rwb = cpu.rwb
              /\ cpu'.state.pc = cpu.state.pc /\ cpu'.state.sp = cpu.state.sp
              /\ cpu'.state.ir = cpu.state.ir
              /\ cpu'.state.mar = cpu.state.mar /\ cpu'.state.mdr = cpu.state.mdr
              /\ BitAnd(cpu'.state.sr, 125, 8) = BitAnd(cpu.state.sr, 125, 8)
      ]_vars

C17_Witness ==
    /\ pc = "end" /\ cycles = 1
    /\ cpu.state = [pc |-> 0, sp |-> 0, a |-> 255, sr |-> 128, ir |-> 0,
                    mar |-> 0, mdr |-> 0]
    /\ cpu.addr_bus = 0 /\ cpu.data_bus = 255 /\ cpu.rwb = WRITE

(* C18: after any number n >= 1 of cycles from a fresh Cpu and memory the  *)
(* state is the one after the first cycle: a = 42, ZRO and NEG clear,      *)
(* addr_bus = 0xFF, data_bus = 42, rwb = WRITE, memory = {0xFF -> 42};     *)
(* rwb is never READ again after the first setup_cycle.                    *)
C18_CyclesIdempotent ==
    /\ (pc = "end" /\ cycles >= 1) =>
          /\ cpu = [state |-> [pc |-> 0, sp |-> 0, a |-> 42, sr |-> 0, ir |-> 0,
                               mar |-> 0, mdr |-> 0],
                    addr_bus |-> 255, data_bus |-> 42, rwb |-> WRITE]
          /\ DOMAIN mem = {255} /\ mem[255] = 42
    /\ (cycles >= 1 \/ pc \in {"service", "complete", "end"}) => cpu.rwb = WRITE

C18_Witness ==
    /\ pc = "end" /\ cycles = 7 /\ svc.n = 7
    /\ cpu.state.a = 42 /\ DOMAIN mem = {255}

====
